---- MODULE Spec2Model ----
(***************************************************************************)
(* Authentication and session boundary of the fitness backend:             *)
(* registration and login (src/src/api/login.py), the user CRUD helpers    *)
(* (src/src/curd/user.py), password hashing (src/src/core/security.py),    *)
(* token issuance and identity resolution (src/src/core/auth.py).          *)
(*                                                                         *)
(* Every HTTP request is a task of the event loop; a task is suspended at  *)
(* each await of a database call, so one action below is one stretch of    *)
(* a handler between two awaits, with the database call it ends in.        *)
(***************************************************************************)
EXTENDS Integers, Sequences, FiniteSets, TLC

VARIABLES
    users,      \* the rows of the user table (the credential store)
    now,        \* the UTC wall clock, in seconds
    issued,     \* history: every call of create_access_token, [tok, at, ttl]
    revoked,    \* history: administrative deactivations and deletions, [username, at]
    req,        \* per request task: the handler, its position and its locals
    resp,       \* per request task: the response sent when the handler ended
    records,    \* FitnessRecord table
    reports,    \* FitnessReport table
    app,        \* settings.ENABLE_LLM_MODEL and app.state.generate_report, set at startup
    record_attrs,  \* which attributes a FitnessRecord row has
    out         \* the response of the last fitness or report request

vars == <<users, now, issued, revoked, req, resp, records, reports, app, record_attrs, out>>

fitvars == <<records, reports, app, record_attrs, out>>

----------------------------------------------------------------------------
(* Bounds of the model *)

NReq == 2       \* request tasks that may be in flight together
MaxSec == 2     \* seconds the clock is followed
MaxIssued == 1  \* direct calls of create_access_token that are followed
MaxTTL == 1     \* largest caller-supplied ttl, in seconds
MaxRecords == 3 \* fitness records that are stored
MaxReports == 1 \* fitness reports that are stored
MaxLimit == 2   \* largest limit a reader passes, the default aside

(* Program constants *)

ACCESS_TOKEN_EXPIRE_MINUTES == 30
HTTP_200_OK == 200
HTTP_201_CREATED == 201
HTTP_400_BAD_REQUEST == 400
HTTP_401_UNAUTHORIZED == 401
HTTP_500_INTERNAL_SERVER_ERROR == 500
DefaultLimit == 5
ReportWindow == 2

Reqs == 1..NReq
Usernames == {"alice", ""}        \* UserBase.username is any str, the empty one included
LoginUsernames == {"alice", "bob"}
Emails == {"a@x.com", "b@x.com"}
Passwords == {"secret1", "secret2"}
Salts == {1, 2}
DefaultActive == TRUE             \* UserBase.is_active when the body does not carry it

----------------------------------------------------------------------------
(* Values *)

NoHash == [salt |-> 0, pw |-> ""]
NoUser == [id |-> 0, username |-> "", email |-> "", password_hash |-> NoHash,
           is_active |-> FALSE, created_at |-> 0]
NoRead == [id |-> 0, username |-> "", email |-> "", is_active |-> FALSE, created_at |-> 0]
NoSub == "<absent>"
NoToken == [sub |-> NoSub, exp |-> 0, sig |-> "none"]
Garbage == [sub |-> NoSub, exp |-> 0, sig |-> "undecodable"]
NoDelta == <<>>

IdleReq == [op |-> "idle", pc |-> "idle", username |-> "", email |-> "", password |-> "",
            is_active |-> TRUE,
            db_user |-> NoUser, tok |-> NoToken, at |-> 0, verified |-> FALSE,
            outlived |-> FALSE, lookups |-> 0, steps |-> <<>>]
NoResp == [status |-> 0, detail |-> "", challenge |-> "", user |-> NoRead,
           password_hash |-> NoHash, access_token |-> NoToken, token_type |-> ""]

InFlight(r) == req[r].pc \notin {"idle", "done"}

----------------------------------------------------------------------------
(* Password hasher: bcrypt with a random salt *)

get_password_hash(password, salt) == [salt |-> salt, pw |-> password]

\* A stored value that is no bcrypt hash: pwd_context.verify cannot identify
\* its scheme and raises UnknownHashError.
Malformed == [salt |-> 0, pw |-> "not-a-bcrypt-hash"]

verify_password_raises(hashed_password) == hashed_password.salt \notin Salts

\* The value pwd_context.verify returns when it returns.
verify_password(plain_password, hashed_password) ==
    hashed_password.salt \in Salts /\ hashed_password.pw = plain_password

----------------------------------------------------------------------------
(* Credential store *)

First(rows) ==
    IF rows = {} THEN NoUser ELSE CHOOSE x \in rows : \A y \in rows : x.id <= y.id

get_user_by_email(store, email) == First({x \in store : x.email = email})

get_user_by_username(store, username) == First({x \in store : x.username = username})

get_user_by_id(store, id) == First({x \in store : x.id = id})

MaxOf(S) == IF S = {} THEN 0 ELSE CHOOSE m \in S : \A n \in S : n <= m

NextId(store) == MaxOf({x.id : x \in store}) + 1

\* A table whose unique constraint covers the username only.
UniqueViolation_UsernameOnly(store, row) == \E x \in store : x.username = row.username

\* The unique constraints of the user table on username and on email.
UniqueViolation(store, row) ==
    \E x \in store : x.username = row.username \/ x.email = row.email

----------------------------------------------------------------------------
(* Responses *)

UserRead(row) ==
    [id |-> row.id, username |-> row.username, email |-> row.email,
     is_active |-> row.is_active, created_at |-> row.created_at]

HTTPException(status_code, detail, challenge) ==
    [NoResp EXCEPT !.status = status_code, !.detail = detail, !.challenge = challenge]

InternalServerError ==
    HTTPException(HTTP_500_INTERNAL_SERVER_ERROR, "Internal Server Error", "")

UserAlreadyExists == HTTPException(HTTP_400_BAD_REQUEST, "User already exists.", "")

IncorrectLogin ==
    HTTPException(HTTP_401_UNAUTHORIZED, "Incorrect username or password", "Bearer")

InactiveUser == HTTPException(HTTP_400_BAD_REQUEST, "Inactive user", "")

credentials_exception ==
    HTTPException(HTTP_401_UNAUTHORIZED, "Could not validate credentials", "Bearer")

\* A handler that returns the row without response_model=UserRead.
Created_Unfiltered(row) ==
    [NoResp EXCEPT !.status = HTTP_201_CREATED, !.user = UserRead(row),
                   !.password_hash = row.password_hash]

Created(row) == [NoResp EXCEPT !.status = HTTP_201_CREATED, !.user = UserRead(row)]

TokenResponse(token) ==
    [NoResp EXCEPT !.status = HTTP_200_OK, !.access_token = token, !.token_type = "bearer"]

Resolved(row) ==
    [NoResp EXCEPT !.status = HTTP_200_OK, !.user = UserRead(row),
                   !.password_hash = row.password_hash]

Finish(r, response) ==
    /\ req' = [req EXCEPT ![r].pc = "done"]
    /\ resp' = [resp EXCEPT ![r] = response]

----------------------------------------------------------------------------
(* Registration: POST /register *)

\* The handler up to its first await: the duplicate check on the username.
RegisterBegin(r, username, email, password, is_active) ==
    /\ ~InFlight(r)
    /\ LET task == [IdleReq EXCEPT !.op = "register", !.username = username,
                                   !.email = email, !.password = password,
                                   !.is_active = is_active, !.at = now]
       IN  IF get_user_by_username(users, username) # NoUser
           THEN /\ req' = [req EXCEPT ![r] = [task EXCEPT !.pc = "done"]]
                /\ resp' = [resp EXCEPT ![r] = UserAlreadyExists]
           ELSE /\ req' = [req EXCEPT ![r] = [task EXCEPT !.pc = "check_email"]]
                /\ resp' = [resp EXCEPT ![r] = NoResp]
    /\ UNCHANGED <<users, now, issued, revoked>>
    /\ UNCHANGED fitvars

\* A handler that checks the username only.
RegisterCheckEmail_Skipped(r) ==
    /\ req[r].op = "register" /\ req[r].pc = "check_email"
    /\ req' = [req EXCEPT ![r].pc = "commit"]
    /\ UNCHANGED <<users, now, issued, revoked, resp>>
    /\ UNCHANGED fitvars

\* The second operand of the "or": the duplicate check on the email.
RegisterCheckEmail(r) ==
    /\ req[r].op = "register" /\ req[r].pc = "check_email"
    /\ IF get_user_by_email(users, req[r].email) # NoUser
       THEN Finish(r, UserAlreadyExists)
       ELSE /\ req' = [req EXCEPT ![r].pc = "commit"]
            /\ UNCHANGED resp
    /\ UNCHANGED <<users, now, issued, revoked>>
    /\ UNCHANGED fitvars

\* create_user up to the end of session.commit(): the INSERT either violates a
\* unique constraint, and the IntegrityError leaves the handler uncaught, or
\* stores the row.
\* A create_user that stores the is_active of the request.
create_user_RequestActive(r, salt) ==
    LET db_user == [id |-> NextId(users),
                    username |-> req[r].username,
                    email |-> req[r].email,
                    password_hash |-> get_password_hash(req[r].password, salt),
                    is_active |-> req[r].is_active,
                    created_at |-> now]
    IN  IF UniqueViolation(users, db_user)
        THEN /\ Finish(r, InternalServerError)
             /\ UNCHANGED users
        ELSE /\ users' = users \cup {db_user}
             /\ req' = [req EXCEPT ![r].pc = "refresh", ![r].db_user = db_user]
             /\ UNCHANGED resp

create_user(r, salt) ==
    LET db_user == [id |-> NextId(users),
                    username |-> req[r].username,
                    email |-> req[r].email,
                    password_hash |-> get_password_hash(req[r].password, salt),
                    is_active |-> TRUE,
                    created_at |-> now]
    IN  IF UniqueViolation(users, db_user)
        THEN /\ Finish(r, InternalServerError)
             /\ UNCHANGED users
        ELSE /\ users' = users \cup {db_user}
             /\ req' = [req EXCEPT ![r].pc = "refresh", ![r].db_user = db_user]
             /\ UNCHANGED resp

RegisterCommit(r) ==
    /\ req[r].op = "register" /\ req[r].pc = "commit"
    /\ \E salt \in Salts : create_user(r, salt)
    /\ UNCHANGED <<now, issued, revoked>>
    /\ UNCHANGED fitvars

\* session.refresh(db_user) reads the row back by primary key; the handler
\* returns it through response_model=UserRead.
RegisterRefresh(r) ==
    /\ req[r].op = "register" /\ req[r].pc = "refresh"
    /\ LET row == get_user_by_id(users, req[r].db_user.id)
       IN  IF row = NoUser
           THEN Finish(r, InternalServerError)
           ELSE Finish(r, Created(row))
    /\ UNCHANGED <<users, now, issued, revoked>>
    /\ UNCHANGED fitvars

----------------------------------------------------------------------------
(* Token service *)

DefaultDelta == <<ACCESS_TOKEN_EXPIRE_MINUTES * 60>>

\* "if expires_delta:" is false for None and for timedelta(0).
Truthy(expires_delta) == Len(expires_delta) > 0 /\ expires_delta[1] # 0

\* An expiry computed with the wrong sign.
create_access_token_Subtracts(subject, expires_delta, t) ==
    LET expire == IF Truthy(expires_delta)
                  THEN t - expires_delta[1]
                  ELSE t + ACCESS_TOKEN_EXPIRE_MINUTES * 60
    IN  [sub |-> subject, exp |-> expire, sig |-> "valid"]

create_access_token(subject, expires_delta, t) ==
    LET expire == IF Truthy(expires_delta)
                  THEN t + expires_delta[1]
                  ELSE t + ACCESS_TOKEN_EXPIRE_MINUTES * 60
    IN  [sub |-> subject, exp |-> expire, sig |-> "valid"]

\* The token is text, and jwt.decode compares the bytes its signature segment
\* decodes to: base64url decoding pads the segment and ignores the two unused
\* bits of its last character, so a segment spelt otherwise ("respelt": those
\* bits changed, or "=" appended) decodes to the bytes of the original.
base64url_decode(sig) == IF sig = "respelt" THEN "valid" ELSE sig

\* A decode that does not check the signature.
jwt_decodes_Unverified(token, t) ==
    base64url_decode(token.sig) \in {"valid", "invalid"} /\ ~(token.exp < t)

\* jwt.decode raises JWTError for an undecodable token, a signature that does
\* not verify under SECRET_KEY, and an exp earlier than the current time.
jwt_decodes(token, t) == base64url_decode(token.sig) = "valid" /\ ~(token.exp < t)

\* The try block of get_current_user: decode, then payload.get("sub") is None.
TokenVerifies(token, t) == jwt_decodes(token, t) /\ token.sub # NoSub

----------------------------------------------------------------------------
(* Login: POST /login/access-token *)

\* An authentication that returns whatever row the lookup found.
authenticate_user_NoVerify(store, username, password) ==
    get_user_by_username(store, username)

\* The value authenticate_user returns when it returns.
authenticate_user(store, username, password) ==
    LET user == get_user_by_username(store, username)
    IN  IF user = NoUser THEN NoUser
        ELSE IF ~verify_password(password, user.password_hash) THEN NoUser
        ELSE user

\* verify_password is called for a found row only; what it raises leaves
\* authenticate_user and the handler uncaught.
authenticate_user_raises(store, username) ==
    LET user == get_user_by_username(store, username)
    IN  user # NoUser /\ verify_password_raises(user.password_hash)

\* A handler without the is_active check.
LoginResponse_NoActiveCheck(store, username, password, t) ==
    LET user == authenticate_user(store, username, password)
    IN  IF authenticate_user_raises(store, username) THEN InternalServerError
        ELSE IF user = NoUser THEN IncorrectLogin
        ELSE TokenResponse(create_access_token(user.username, DefaultDelta, t))

LoginResponse(store, username, password, t) ==
    LET user == authenticate_user(store, username, password)
    IN  IF authenticate_user_raises(store, username) THEN InternalServerError
        ELSE IF user = NoUser THEN IncorrectLogin
        ELSE IF ~user.is_active THEN InactiveUser
        ELSE TokenResponse(create_access_token(user.username, DefaultDelta, t))

\* The components the handler has called when it ends, in call order: the
\* store lookup, the hasher, the token service.
LoginSteps(store, username, password) ==
    LET user == get_user_by_username(store, username)
    IN  IF user = NoUser THEN <<"lookup">>
        ELSE IF verify_password_raises(user.password_hash) THEN <<"lookup", "verify">>
        ELSE IF ~verify_password(password, user.password_hash) THEN <<"lookup", "verify">>
        ELSE IF ~user.is_active THEN <<"lookup", "verify">>
        ELSE <<"lookup", "verify", "issue">>

\* The only await of the handler is the lookup inside authenticate_user, so the
\* whole handler is one step.
Login(r, username, password) ==
    /\ ~InFlight(r)
    /\ LET response == LoginResponse(users, username, password, now)
       IN  /\ req' = [req EXCEPT ![r] = [IdleReq EXCEPT !.op = "login", !.pc = "done",
                                          !.username = username, !.password = password,
                                          !.at = now, !.lookups = 1,
                                          !.steps = LoginSteps(users, username,
                                                               password)]]
           /\ resp' = [resp EXCEPT ![r] = response]
           /\ issued' = IF response.status = HTTP_200_OK
                        THEN issued \cup {[tok |-> response.access_token, at |-> now,
                                           ttl |-> DefaultDelta]}
                        ELSE issued
    /\ UNCHANGED <<users, now, revoked>>
    /\ UNCHANGED fitvars

----------------------------------------------------------------------------
(* Startup, and the fitness tables *)

LOCAL_MODEL_NAME == "llama3"
MockModel == "Mock Model"
MOCK_REPORT == "[System Notice] Local LLM generation is disabled or temporarily unavailable."
MockText == "LLM Disabled: This is a mock fitness report."
LlmText == "llm report"

\* Step 3 of lifespan: the mock is stored first; with ENABLE_LLM_MODEL the
\* import of src.core.llm (which imports ollama) replaces it, unless it fails.
lifespan(enable_llm_model, ollama_importable) ==
    [ENABLE_LLM_MODEL |-> enable_llm_model,
     ollama_importable |-> ollama_importable,
     generate_report |-> IF enable_llm_model /\ ollama_importable
                         THEN "generate_fitness_report"
                         ELSE "mock_generate_report"]

\* The attributes of a FitnessRecord row: those of FitnessRecordBase only
\* ("in_lbs"), or also weight_kg and height_cm, left null by
\* create_fitness_record ("metric_null") or derived from the others
\* ("metric_set").
RecordAttrs == {"in_lbs", "metric_null", "metric_set"}

NoOut == [op |-> "none", user_id |-> 0, limit |-> 0, status |-> 0, detail |-> "",
          rows |-> <<>>, content |-> "", model_used |-> ""]

InitFit ==
    /\ records = {}
    /\ reports = {}
    /\ app = lifespan(TRUE, TRUE)
    /\ record_attrs = "in_lbs"
    /\ out = NoOut

----------------------------------------------------------------------------
(* The HTTP operations of login.py, interleaved at their awaits *)

Init ==
    /\ users = {}
    /\ now = 0
    /\ issued = {}
    /\ revoked = {}
    /\ req = [r \in Reqs |-> IdleReq]
    /\ resp = [r \in Reqs |-> NoResp]
    /\ InitFit

Next ==
    \E r \in Reqs :
        \/ \E u \in Usernames, e \in Emails, p \in Passwords :
              RegisterBegin(r, u, e, p, DefaultActive)
        \/ RegisterCheckEmail(r)
        \/ RegisterCommit(r)
        \/ RegisterRefresh(r)
        \/ \E u \in LoginUsernames, p \in Passwords : Login(r, u, p)

Spec == Init /\ [][Next]_vars

----------------------------------------------------------------------------
(* Sequential runs: a request is accepted only when no other is in flight *)

Quiet(r) == \A q \in Reqs \ {r} : ~InFlight(q)

NextSeq ==
    \E r \in Reqs :
        \/ \E u \in Usernames, e \in Emails, p \in Passwords :
              Quiet(r) /\ RegisterBegin(r, u, e, p, DefaultActive)
        \/ Quiet(r) /\ RegisterCheckEmail(r)
        \/ Quiet(r) /\ RegisterCommit(r)
        \/ Quiet(r) /\ RegisterRefresh(r)
        \/ \E u \in LoginUsernames, p \in Passwords : Quiet(r) /\ Login(r, u, p)

SpecSeq == Init /\ [][NextSeq]_vars

----------------------------------------------------------------------------
(* A race: every task carries one registration, all accepted while the store
   is as the earlier ones left it *)

NextRace ==
    \E r \in Reqs :
        \/ \E u \in Usernames, e \in Emails, p \in Passwords, a \in BOOLEAN :
              req[r].op = "idle" /\ RegisterBegin(r, u, e, p, a)
        \/ RegisterCheckEmail(r)
        \/ RegisterCommit(r)
        \/ RegisterRefresh(r)

SpecRace == Init /\ [][NextRace]_vars

----------------------------------------------------------------------------
(* Registrations that carry an is_active of their own, one per task, with
   logins between them *)

NextActive ==
    \E r \in Reqs :
        \/ \E u \in Usernames, e \in Emails, p \in Passwords, a \in BOOLEAN :
              req[r].op = "idle" /\ RegisterBegin(r, u, e, p, a)
        \/ RegisterCheckEmail(r)
        \/ RegisterCommit(r)
        \/ RegisterRefresh(r)
        \/ \E u \in LoginUsernames, p \in Passwords : Login(r, u, p)

SpecActive == Init /\ [][NextActive]_vars

----------------------------------------------------------------------------
(* A store with two principals, as two registrations leave it *)

SeedUsers ==
    {[id |-> 1, username |-> "alice", email |-> "a@x.com",
      password_hash |-> get_password_hash("secret1", 1), is_active |-> TRUE,
      created_at |-> 0],
     [id |-> 2, username |-> "", email |-> "b@x.com",
      password_hash |-> get_password_hash("secret2", 2), is_active |-> TRUE,
      created_at |-> 0]}

InitSeeded ==
    /\ users = SeedUsers
    /\ now = 0
    /\ issued = {}
    /\ revoked = {}
    /\ req = [r \in Reqs |-> IdleReq]
    /\ resp = [r \in Reqs |-> NoResp]
    /\ InitFit

(* Administrative action on the store, outside the HTTP operations *)

TokensOf(username) == {i.tok : i \in {j \in issued : j.tok.sub = username}}

AdminDeactivate(username) ==
    /\ \E x \in users : x.username = username /\ x.is_active
    /\ users' = {IF x.username = username THEN [x EXCEPT !.is_active = FALSE] ELSE x :
                 x \in users}
    /\ revoked' = revoked \cup TokensOf(username)
    /\ UNCHANGED <<now, issued, req, resp>>
    /\ UNCHANGED fitvars

AdminDelete(username) ==
    /\ \E x \in users : x.username = username
    /\ users' = {x \in users : x.username # username}
    /\ revoked' = revoked \cup TokensOf(username)
    /\ UNCHANGED <<now, issued, req, resp>>
    /\ UNCHANGED fitvars

NextLogin ==
    \/ \E r \in Reqs, u \in LoginUsernames, p \in Passwords : Login(r, u, p)
    \/ \E u \in Usernames : AdminDeactivate(u)
    \/ \E u \in Usernames : AdminDelete(u)

SpecLogin == InitSeeded /\ [][NextLogin]_vars

(* A store that also holds a row whose password_hash was not written by
   create_user and is no bcrypt hash *)

LegacyUsers ==
    SeedUsers \cup {[id |-> 3, username |-> "bob", email |-> "c@x.com",
                     password_hash |-> Malformed, is_active |-> TRUE, created_at |-> 0]}

InitLegacy ==
    /\ users = LegacyUsers
    /\ now = 0
    /\ issued = {}
    /\ revoked = {}
    /\ req = [r \in Reqs |-> IdleReq]
    /\ resp = [r \in Reqs |-> NoResp]
    /\ InitFit

SpecLegacy == InitLegacy /\ [][NextLogin]_vars

----------------------------------------------------------------------------
(* Identity resolution: get_current_user *)

Tick ==
    /\ now < MaxSec
    /\ now' = now + 1
    /\ UNCHANGED <<users, issued, revoked, req, resp>>
    /\ UNCHANGED fitvars

Subjects == {"alice", ""}
Deltas == {NoDelta} \cup {<<d>> : d \in (-1)..MaxTTL}

\* A direct call create_access_token(subject, expires_delta).
IssueToken(subject, expires_delta) ==
    /\ Cardinality(issued) < MaxIssued
    /\ issued' = issued \cup {[tok |-> create_access_token(subject, expires_delta, now),
                               at |-> now, ttl |-> expires_delta]}
    /\ UNCHANGED <<users, now, revoked, req, resp>>
    /\ UNCHANGED fitvars

\* What a client can put in the Authorization header: an issued token, an
\* issued token with a byte changed, a string that is no JWT, and a token
\* signed under the same key that carries no sub claim.
Tampered(token) == [token EXCEPT !.sig = "invalid"]

Presentable ==
    {i.tok : i \in issued}
        \cup {Tampered(i.tok) : i \in issued}
        \cup {Garbage, [sub |-> NoSub, exp |-> MaxSec, sig |-> "valid"]}

\* A handler that queries the store before it has verified the token.
AuthBegin_LookupFirst(r, token) ==
    /\ ~InFlight(r)
    /\ req' = [req EXCEPT ![r] = [IdleReq EXCEPT !.op = "auth", !.tok = token, !.at = now,
                                                 !.outlived = (token \in revoked),
                                                 !.pc = "lookup", !.username = token.sub,
                                                 !.verified = TokenVerifies(token, now)]]
    /\ resp' = [resp EXCEPT ![r] = NoResp]
    /\ UNCHANGED <<users, now, issued, revoked>>
    /\ UNCHANGED fitvars

\* The handler up to its only await: the try block, with the exception raised
\* there, or the call of get_user_by_username.
AuthBegin(r, token) ==
    /\ ~InFlight(r)
    /\ LET task == [IdleReq EXCEPT !.op = "auth", !.tok = token, !.at = now,
                                   !.outlived = (token \in revoked)]
       IN  IF TokenVerifies(token, now)
           THEN /\ req' = [req EXCEPT ![r] = [task EXCEPT !.pc = "lookup",
                                                          !.verified = TRUE,
                                                          !.username = token.sub]]
                /\ resp' = [resp EXCEPT ![r] = NoResp]
           ELSE /\ req' = [req EXCEPT ![r] = [task EXCEPT !.pc = "done"]]
                /\ resp' = [resp EXCEPT ![r] = credentials_exception]
    /\ UNCHANGED <<users, now, issued, revoked>>
    /\ UNCHANGED fitvars

\* A handler that tells a missing principal apart from a bad token.
LookupResponse_NotFound(user) ==
    IF user = NoUser THEN HTTPException(404, "User not found", "") ELSE Resolved(user)

\* The lookup returns, and the handler ends.
LookupResponse(user) == IF user = NoUser THEN credentials_exception ELSE Resolved(user)

\* A resolver that stamps the row it resolved to.
AuthLookup_Stamps(r) ==
    /\ req[r].op = "auth" /\ req[r].pc = "lookup"
    /\ req' = [req EXCEPT ![r].pc = "done", ![r].lookups = req[r].lookups + 1]
    /\ resp' = [resp EXCEPT
                  ![r] = LookupResponse(get_user_by_username(users, req[r].username))]
    /\ users' = {IF x.username = req[r].username
                 THEN [x EXCEPT !.created_at = now + 1] ELSE x : x \in users}
    /\ UNCHANGED <<now, issued, revoked>>
    /\ UNCHANGED fitvars

AuthLookup(r) ==
    /\ req[r].op = "auth" /\ req[r].pc = "lookup"
    /\ req' = [req EXCEPT ![r].pc = "done", ![r].lookups = req[r].lookups + 1]
    /\ resp' = [resp EXCEPT
                  ![r] = LookupResponse(get_user_by_username(users, req[r].username))]
    /\ UNCHANGED <<users, now, issued, revoked>>
    /\ UNCHANGED fitvars

NextAuth ==
    \/ Tick
    \/ \E s \in Subjects, d \in Deltas : IssueToken(s, d)
    \/ \E r \in Reqs : \E t \in Presentable : AuthBegin(r, t)
    \/ \E r \in Reqs : AuthLookup(r)
    \/ \E u \in Usernames : AdminDeactivate(u)
    \/ \E u \in Usernames : AdminDelete(u)

SpecAuth == InitSeeded /\ [][NextAuth]_vars

----------------------------------------------------------------------------
(* Identity resolution over a store that no operation changes: any of the
   stores the registrations of the two principals can have left *)

InitResolve ==
    /\ users \in SUBSET SeedUsers
    /\ now = 0
    /\ issued = {}
    /\ revoked = {}
    /\ req = [r \in Reqs |-> IdleReq]
    /\ resp = [r \in Reqs |-> NoResp]
    /\ InitFit

NextResolve ==
    \/ Tick
    \/ \E s \in Subjects, d \in Deltas : IssueToken(s, d)
    \/ \E r \in Reqs : \E t \in Presentable : AuthBegin(r, t)
    \/ \E r \in Reqs : AuthLookup(r)

SpecResolve == InitResolve /\ [][NextResolve]_vars

----------------------------------------------------------------------------
(* Altered tokens *)

\* The signature segment spelt otherwise, header and payload as issued.
Respelt(token) == [token EXCEPT !.sig = "respelt"]

\* The payload changed, the signature segment as issued: the segment is the
\* HMAC of another signing input.
WithSubject(token, sub) == [token EXCEPT !.sub = sub, !.sig = "invalid"]

WithExpiry(token, exp) == [token EXCEPT !.exp = exp, !.sig = "invalid"]

Altered(token) ==
    {Tampered(token), Respelt(token), WithExpiry(token, token.exp + 1)}
        \cup {WithSubject(token, s) : s \in Subjects \ {token.sub}}

PresentableAltered ==
    {i.tok : i \in issued} \cup UNION {Altered(i.tok) : i \in issued} \cup {Garbage}

NextTamper ==
    \/ Tick
    \/ \E s \in Subjects, d \in Deltas : IssueToken(s, d)
    \/ \E r \in Reqs : \E t \in PresentableAltered : AuthBegin(r, t)
    \/ \E r \in Reqs : AuthLookup(r)

SpecTamper == InitSeeded /\ [][NextTamper]_vars

----------------------------------------------------------------------------
(* Fitness records and reports *)

Weights == {150, 160}
Limits == (0..MaxLimit) \cup {DefaultLimit}
ChatOutcomes == {"content", "empty", "raises"}

\* The Authorization header of a fitness request: a token login issues at
\* this time, or a string that is no JWT.
BearerTokens == {create_access_token(s, DefaultDelta, now) : s \in Subjects} \cup {Garbage}

\* The dependency get_current_user, from decode to lookup; NoUser stands for
\* the credentials_exception.
current_user(token) ==
    IF TokenVerifies(token, now) THEN get_user_by_username(users, token.sub) ELSE NoUser

Failed(op, user_id, status_code, detail) ==
    [NoOut EXCEPT !.op = op, !.user_id = user_id, !.status = status_code,
                  !.detail = detail]

\* Validation of the body: the fields of FitnessRecordBase are kept, any other
\* key of the body is dropped.
FitnessRecordCreate(body) == [weight_lbs |-> body.weight_lbs]

\* The default of FitnessRecord.created_at: the reading of the clock, which
\* need not have advanced since the row before.
created_at_default == now

create_fitness_record(table, record_in, user_id) ==
    [id |-> NextId(table), user_id |-> user_id, weight_lbs |-> record_in.weight_lbs,
     created_at |-> created_at_default]

\* A handler that takes the owner from the body.
add_fitness_record_BodyOwner(token, body) ==
    /\ Cardinality(records) < MaxRecords
    /\ LET user == current_user(token)
           row == create_fitness_record(records, FitnessRecordCreate(body), body.user_id)
       IN  IF user = NoUser
           THEN /\ out' = Failed("add", 0, HTTP_401_UNAUTHORIZED, credentials_exception.detail)
                /\ UNCHANGED records
           ELSE /\ records' = records \cup {row}
                /\ out' = [NoOut EXCEPT !.op = "add", !.user_id = user.id,
                                         !.status = HTTP_201_CREATED, !.rows = <<row>>]
    /\ UNCHANGED <<users, now, issued, revoked, req, resp, reports, app, record_attrs>>

\* POST /records
add_fitness_record(token, body) ==
    /\ Cardinality(records) < MaxRecords
    /\ LET user == current_user(token)
           row == create_fitness_record(records, FitnessRecordCreate(body), user.id)
       IN  IF user = NoUser
           THEN /\ out' = Failed("add", 0, HTTP_401_UNAUTHORIZED, credentials_exception.detail)
                /\ UNCHANGED records
           ELSE /\ records' = records \cup {row}
                /\ out' = [NoOut EXCEPT !.op = "add", !.user_id = user.id,
                                         !.status = HTTP_201_CREATED, !.rows = <<row>>]
    /\ UNCHANGED <<users, now, issued, revoked, req, resp, reports, app, record_attrs>>

Min(a, b) == IF a <= b THEN a ELSE b

Descending(rows) ==
    \A i, j \in 1..Len(rows) : i < j => rows[i].created_at >= rows[j].created_at

\* The orders in which ORDER BY created_at DESC can deliver a set of rows:
\* rows with equal created_at come in either order.
Orderings(S) ==
    {s \in [1..Cardinality(S) -> S] :
        /\ \A i, j \in 1..Cardinality(S) : i # j => s[i] # s[j]
        /\ Descending(s)}

\* A SELECT without the WHERE clause on user_id.
get_user_fitness_records_AllUsers(table, user_id, limit) ==
    {SubSeq(s, 1, Min(limit, Len(s))) : s \in Orderings(table)}

\* The results the SELECT of get_user_fitness_records can deliver.
get_user_fitness_records(table, user_id, limit) ==
    {SubSeq(s, 1, Min(limit, Len(s))) :
        s \in Orderings({x \in table : x.user_id = user_id})}

\* GET /records
read_fitness_records(token, limit) ==
    /\ LET user == current_user(token)
       IN  IF user = NoUser
           THEN out' = Failed("read", 0, HTTP_401_UNAUTHORIZED, credentials_exception.detail)
           ELSE \E rows \in get_user_fitness_records(records, user.id, limit) :
                    out' = [NoOut EXCEPT !.op = "read", !.user_id = user.id,
                                         !.limit = limit, !.status = HTTP_200_OK,
                                         !.rows = rows]
    /\ UNCHANGED <<users, now, issued, revoked, req, resp, records, reports, app,
                   record_attrs>>

\* generate_fitness_report: the mock report when the LLM is disabled or the
\* chat call raises, the content of the chat response otherwise.
generate_fitness_report(enable_llm_model, chat) ==
    IF ~enable_llm_model THEN MOCK_REPORT
    ELSE IF chat = "raises" THEN MOCK_REPORT
    ELSE IF chat = "empty" THEN ""
    ELSE LlmText

\* Section 1 of create_fitness_report, after the rows were found.
data_summary(rows) ==
    IF Len(rows) = 1 THEN "baseline"
    ELSE IF rows[1].weight_lbs - rows[2].weight_lbs > 0 THEN "gained" ELSE "lost"

\* Reading weight_kg of a row raises AttributeError when the row has no such
\* attribute, and subtracting two of them raises TypeError when they are null.
data_summary_raises(rows) ==
    \/ record_attrs = "in_lbs"
    \/ record_attrs = "metric_null" /\ Len(rows) > 1

\* "await generate_func(...)": mock_generate_report is a plain function, its
\* call returns a str, and awaiting a str raises TypeError.
await_raises == app.generate_report = "mock_generate_report"

model_used == IF app.ENABLE_LLM_MODEL THEN LOCAL_MODEL_NAME ELSE MockModel

\* POST /generate
create_fitness_report(token, chat) ==
    /\ Cardinality(reports) < MaxReports
    /\ LET user == current_user(token)
       IN  IF user = NoUser
           THEN /\ out' = Failed("report", 0, HTTP_401_UNAUTHORIZED,
                                 credentials_exception.detail)
                /\ UNCHANGED reports
           ELSE \E rows \in get_user_fitness_records(records, user.id, ReportWindow) :
                  LET report_text == generate_fitness_report(app.ENABLE_LLM_MODEL, chat)
                      new_report == [id |-> NextId(reports), user_id |-> user.id,
                                     report_content |-> report_text,
                                     data_summary |-> data_summary(rows),
                                     model_used |-> model_used]
                  IN  IF rows = <<>>
                      THEN /\ out' = Failed("report", user.id, HTTP_400_BAD_REQUEST,
                                            "No fitness records found.")
                           /\ UNCHANGED reports
                      ELSE IF data_summary_raises(rows) \/ await_raises
                      THEN /\ out' = Failed("report", user.id, HTTP_500_INTERNAL_SERVER_ERROR,
                                            InternalServerError.detail)
                           /\ UNCHANGED reports
                      ELSE IF report_text = ""
                      THEN /\ out' = Failed("report", user.id, HTTP_500_INTERNAL_SERVER_ERROR,
                                            "Failed to generate report from LLM.")
                           /\ UNCHANGED reports
                      ELSE /\ reports' = reports \cup {new_report}
                           /\ out' = [NoOut EXCEPT !.op = "report", !.user_id = user.id,
                                                    !.status = HTTP_201_CREATED,
                                                    !.content = new_report.report_content,
                                                    !.model_used = new_report.model_used]
    /\ UNCHANGED <<users, now, issued, revoked, req, resp, records, app, record_attrs>>

(* Submissions and reads of fitness records by the two principals *)

NextFitness ==
    \/ Tick
    \/ \E t \in BearerTokens, w \in Weights, u \in {x.id : x \in users} :
          add_fitness_record(t, [weight_lbs |-> w, user_id |-> u])
    \/ \E t \in BearerTokens, n \in Limits : read_fitness_records(t, n)

SpecFitness == InitSeeded /\ [][NextFitness]_vars

(* Report generation after any startup: ENABLE_LLM_MODEL set or not, ollama
   importable or not *)

InitReport ==
    /\ users = SeedUsers
    /\ now = 0
    /\ issued = {}
    /\ revoked = {}
    /\ req = [r \in Reqs |-> IdleReq]
    /\ resp = [r \in Reqs |-> NoResp]
    /\ records = {}
    /\ reports = {}
    /\ \E enable_llm_model, ollama_importable \in BOOLEAN :
          app = lifespan(enable_llm_model, ollama_importable)
    /\ record_attrs \in RecordAttrs
    /\ out = NoOut

NextReport ==
    \/ \E t \in BearerTokens, w \in Weights, u \in {x.id : x \in users} :
          add_fitness_record(t, [weight_lbs |-> w, user_id |-> u])
    \/ \E t \in BearerTokens, c \in ChatOutcomes : create_fitness_report(t, c)

SpecReport == InitReport /\ [][NextReport]_vars

----------------------------------------------------------------------------
(* Registration claims *)

Done(r, op) == req[r].op = op /\ req[r].pc = "done"

Held(store, username, email) ==
    \E x \in store : x.username = username \/ x.email = email

\* C1: of two registrations of one username that run together, with their
\* duplicate checks and inserts interleaved at any await, one ends in success
\* (201) and the other in the duplicate outcome (400 "User already exists.");
\* they never both succeed.
C1_RaceOneSuccessOneDuplicate ==
    \A r1, r2 \in Reqs :
        (/\ r1 # r2
         /\ Done(r1, "register") /\ Done(r2, "register")
         /\ req[r1].username = req[r2].username)
        => \/ resp[r1].status = HTTP_201_CREATED /\ resp[r2] = UserAlreadyExists
           \/ resp[r2].status = HTTP_201_CREATED /\ resp[r1] = UserAlreadyExists

\* C2: in a sequential run, a registration whose username or email a stored
\* principal holds ends in 400 "User already exists." and leaves the store as
\* it was, and a principal is created only for a username and an email that
\* no stored principal holds.
C2_SequentialDuplicateRejected ==
    [][\A r \in Reqs :
         /\ (/\ req'[r].op = "register"
             /\ req'[r] # req[r]
             /\ req[r].pc \in {"idle", "done"}
             /\ get_user_by_username(users, req'[r].username) # NoUser)
            => /\ req'[r].pc = "done"
               /\ resp'[r] = UserAlreadyExists
               /\ users' = users
         /\ (/\ req[r].op = "register"
             /\ req[r].pc = "check_email"
             /\ req'[r] # req[r]
             /\ get_user_by_email(users, req[r].email) # NoUser)
            => /\ req'[r].pc = "done"
               /\ resp'[r] = UserAlreadyExists
               /\ users' = users
         /\ (/\ req'[r].op = "register"
             /\ req'[r] # req[r]
             /\ req'[r].pc = "done")
            => \/ resp'[r] = UserAlreadyExists /\ req'[r].db_user = NoUser
               \/ /\ resp'[r].status = HTTP_201_CREATED
                  /\ resp'[r].user = UserRead(req'[r].db_user)
                  /\ req'[r].db_user \in users'
         /\ (users' # users /\ req'[r] # req[r])
            => /\ ~Held(users, req[r].username, req[r].email)
               /\ users' = users \cup {req'[r].db_user}
      ]_vars

\* A registration was rejected for its email alone, next to a stored principal.
C2_Witness ==
    \E r \in Reqs :
        /\ Done(r, "register")
        /\ resp[r] = UserAlreadyExists
        /\ get_user_by_username(users, req[r].username) = NoUser
        /\ get_user_by_email(users, req[r].email) # NoUser

\* C3: no two distinct principals of the store share a username, and no two
\* share an email, after any interleaving of registrations.
C3_UniqueUsernameAndEmail ==
    \A x, y \in users :
        x # y => x.username # y.username /\ x.email # y.email

\* Two principals are stored and a registration lost a race at its insert.
C3_Witness ==
    /\ Cardinality(users) = 2
    /\ \E r \in Reqs : Done(r, "register") /\ resp[r] = InternalServerError

----------------------------------------------------------------------------
(* Identity resolution claims *)

\* The calls of create_access_token that returned this token with a ttl the
\* caller supplied.
SuppliedTtl(token) == {i \in issued : i.tok = token /\ i.ttl # NoDelta}

\* C4: a token issued before its principal was deactivated or deleted, and
\* presented after that while still unexpired, is rejected as unauthorized.
C4_OutlivedTokenRejected ==
    \A r \in Reqs :
        (/\ Done(r, "auth")
         /\ req[r].outlived
         /\ req[r].at <= req[r].tok.exp)
        => resp[r] = credentials_exception

\* C5: a token issued with a caller-supplied ttl carries exp = issue time +
\* ttl, a ttl of zero or less included, and is rejected as unauthorized when
\* presented after that instant.
C5_SuppliedTtlExpires ==
    \A r \in Reqs : \A i \in SuppliedTtl(req[r].tok) :
        Done(r, "auth")
        => /\ req[r].tok.exp = i.at + i.ttl[1]
           /\ req[r].at > i.at + i.ttl[1] => resp[r] = credentials_exception

\* C6: for a registered username s and a ttl > 0, the token of
\* create_access_token(s, ttl), presented before its expiry has passed,
\* resolves to the stored principal whose username is s.
C6_FreshTokenResolves ==
    \A r \in Reqs : \A i \in SuppliedTtl(req[r].tok) :
        (/\ Done(r, "auth")
         /\ i.ttl[1] > 0
         /\ i.at <= req[r].at /\ req[r].at <= i.at + i.ttl[1]
         /\ get_user_by_username(users, i.tok.sub) # NoUser)
        => /\ resp[r].status = HTTP_200_OK
           /\ resp[r].user.username = i.tok.sub
           /\ resp[r].user.id = get_user_by_username(users, i.tok.sub).id

\* A token of ttl 1 was presented one second after its issue and resolved.
C6_Witness ==
    \E r \in Reqs : \E i \in SuppliedTtl(req[r].tok) :
        /\ Done(r, "auth")
        /\ i.ttl[1] > 0
        /\ req[r].at = i.at + i.ttl[1]
        /\ get_user_by_username(users, i.tok.sub) # NoUser
        /\ resp[r].status = HTTP_200_OK

\* C8: a correctly signed, unexpired token whose sub is absent or empty is
\* rejected as unauthorized, whatever principals the store holds.
C8_EmptySubRejected ==
    \A r \in Reqs :
        (/\ Done(r, "auth")
         /\ req[r].tok.sig = "valid"
         /\ req[r].at <= req[r].tok.exp
         /\ req[r].tok.sub \in {NoSub, ""})
        => resp[r] = credentials_exception

\* C9: every failed resolution, whatever its cause, sends the same response:
\* 401, "Could not validate credentials", a Bearer challenge.
C9_FailuresIndistinguishable ==
    \A r \in Reqs :
        (Done(r, "auth") /\ resp[r].status # HTTP_200_OK)
        => resp[r] = credentials_exception

\* One request failed on an undecodable token and another on a valid token
\* whose subject has no principal.
C9_Witness ==
    \E r1, r2 \in Reqs :
        /\ Done(r1, "auth") /\ Done(r2, "auth")
        /\ req[r1].tok = Garbage /\ resp[r1] = credentials_exception
        /\ req[r2].verified /\ req[r2].lookups = 1 /\ resp[r2] = credentials_exception

\* C10: a request whose token fails decoding, signature, expiry or the sub
\* check ends as unauthorized without a store lookup; only a verified token
\* leads to one.
C10_LookupOnlyAfterVerify ==
    \A r \in Reqs :
        req[r].op = "auth"
        => /\ req[r].verified = TokenVerifies(req[r].tok, req[r].at)
           /\ ~req[r].verified
              => /\ req[r].lookups = 0
                 /\ req[r].pc = "done"
                 /\ resp[r] = credentials_exception
           /\ req[r].lookups > 0 => req[r].verified /\ req[r].pc = "done"

\* An expired token was refused without a lookup, beside a request that
\* looked its subject up.
C10_Witness ==
    \E r1, r2 \in Reqs :
        /\ Done(r1, "auth") /\ Done(r2, "auth")
        /\ req[r1].tok.sig = "valid" /\ req[r1].tok.exp < req[r1].at
        /\ req[r1].lookups = 0
        /\ req[r2].lookups = 1

----------------------------------------------------------------------------
(* Login claims *)

LoginStep(r) ==
    /\ req'[r].op = "login"
    /\ req'[r] # req[r] \/ resp'[r] # resp[r]

Unknown(store, username) == get_user_by_username(store, username) = NoUser

WrongPassword(store, username, password) ==
    /\ ~Unknown(store, username)
    /\ ~verify_password(password, get_user_by_username(store, username).password_hash)

InactiveAccount(store, username, password) ==
    /\ ~Unknown(store, username)
    /\ verify_password(password, get_user_by_username(store, username).password_hash)
    /\ ~get_user_by_username(store, username).is_active

\* C7 as claimed: a login with a wrong password, an unknown username, or the
\* correct credentials of an inactive account returns no token and yields the
\* unauthorized signal (401).
C7_BadLoginUnauthorized ==
    [][\A r \in Reqs :
         (/\ LoginStep(r)
          /\ \/ Unknown(users, req'[r].username)
             \/ WrongPassword(users, req'[r].username, req'[r].password)
             \/ InactiveAccount(users, req'[r].username, req'[r].password))
         => /\ resp'[r].access_token = NoToken
            /\ resp'[r].status = HTTP_401_UNAUTHORIZED
      ]_vars

\* C7 as amended: such a login never returns a token; a wrong password or an
\* unknown username yields 401 "Incorrect username or password" with a Bearer
\* challenge, and the correct credentials of an inactive account yield 400
\* "Inactive user".
C7_BadLoginNoToken ==
    [][\A r \in Reqs :
         LoginStep(r)
         => /\ (\/ Unknown(users, req'[r].username)
                \/ WrongPassword(users, req'[r].username, req'[r].password))
               => resp'[r] = IncorrectLogin /\ issued' = issued
            /\ InactiveAccount(users, req'[r].username, req'[r].password)
               => resp'[r] = InactiveUser /\ issued' = issued
      ]_vars

\* Two refusals stand side by side: an inactive account with its correct
\* password (400), and a wrong password for a stored principal (401).
C7_Witness ==
    \E r1, r2 \in Reqs :
        /\ Done(r1, "login") /\ resp[r1] = InactiveUser
        /\ Done(r2, "login") /\ resp[r2] = IncorrectLogin
        /\ WrongPassword(users, req[r2].username, req[r2].password)

----------------------------------------------------------------------------
(* Altered-token claims *)

IssuedTokens == {i.tok : i \in issued}

\* C12 as claimed: a request whose token differs from every issued token, in
\* any byte of header, payload or signature, is rejected as unauthorized.
C12_AnyChangedByteRejected ==
    \A r \in Reqs :
        (Done(r, "auth") /\ req[r].tok \notin IssuedTokens)
        => resp[r] = credentials_exception

\* C12 as amended: a request whose token differs from every issued token in
\* its header or payload, or whose signature segment decodes to other bytes,
\* is rejected as unauthorized; a request that resolves carries the subject
\* and the expiry of an issued token and resolves to that subject's principal.
C12_AlteredContentRejected ==
    \A r \in Reqs :
        Done(r, "auth")
        => /\ (\A i \in IssuedTokens :
                  \/ req[r].tok.sub # i.sub
                  \/ req[r].tok.exp # i.exp
                  \/ base64url_decode(req[r].tok.sig) # i.sig)
               => resp[r] = credentials_exception
           /\ resp[r].status = HTTP_200_OK
               => /\ \E i \in IssuedTokens :
                        req[r].tok.sub = i.sub /\ req[r].tok.exp = i.exp
                  /\ resp[r].user.username = req[r].tok.sub

\* A token altered to carry another stored subject and one altered to expire
\* later were both refused, the latter after the issued expiry had passed.
C12_Witness ==
    \E r1, r2 \in Reqs : \E i \in IssuedTokens :
        /\ Done(r1, "auth") /\ Done(r2, "auth")
        /\ req[r1].tok = WithSubject(i, "")
        /\ get_user_by_username(users, "") # NoUser
        /\ resp[r1] = credentials_exception
        /\ req[r2].tok = WithExpiry(i, i.exp + 1)
        /\ req[r2].at = i.exp + 1
        /\ resp[r2] = credentials_exception

----------------------------------------------------------------------------
(* Hasher claims *)

\* C13: for a stored hash that is no recognisable bcrypt hash, verify_password
\* returns false and does not raise, and a login against the principal that
\* holds it ends in the bad-credentials outcome (401 "Incorrect username or
\* password"), not in an internal error.
C13_MalformedHashBadCredentials ==
    [][\A r \in Reqs :
         LET user == get_user_by_username(users, req'[r].username)
         IN  (/\ LoginStep(r)
              /\ user # NoUser
              /\ user.password_hash = Malformed)
             => /\ ~verify_password_raises(user.password_hash)
                /\ ~verify_password(req'[r].password, user.password_hash)
                /\ resp'[r] = IncorrectLogin
      ]_vars

----------------------------------------------------------------------------
(* Response claims *)

PublicFields == {"id", "username", "email", "is_active", "created_at"}

\* C14: the response of a successful registration carries the public fields
\* of the created principal (id, username, email, is_active, created_at) and
\* nothing else: neither the submitted password nor the stored hash is in it.
C14_RegistrationResponsePublicOnly ==
    \A r \in Reqs :
        (Done(r, "register") /\ resp[r].status = HTTP_201_CREATED)
        => /\ DOMAIN resp[r].user = PublicFields
           /\ resp[r].user = UserRead(req[r].db_user)
           /\ resp[r].password_hash = NoHash
           /\ resp[r].access_token = NoToken
           /\ resp[r].detail = ""
           /\ "password" \notin DOMAIN resp[r].user
           /\ "password_hash" \notin DOMAIN resp[r].user

\* A registration succeeded and its row holds the hash of its password.
C14_Witness ==
    \E r \in Reqs :
        /\ Done(r, "register") /\ resp[r].status = HTTP_201_CREATED
        /\ req[r].db_user \in users
        /\ verify_password(req[r].password, req[r].db_user.password_hash)
        /\ resp[r].user.username = req[r].username

----------------------------------------------------------------------------
(* Frame claims *)

\* C15: a step of get_current_user, whether it ends in a principal or in a
\* refusal, changes nothing but its own request: the store, the clock, the
\* issued tokens and the other requests stay as they were; and two
\* resolutions of one token, both before its expiry and over the same store,
\* end in the same response.
C15_ResolutionReadOnlyIdempotent ==
    [][/\ req' # req
          => /\ users' = users /\ now' = now
             /\ issued' = issued /\ revoked' = revoked
             /\ \E r \in Reqs :
                   /\ req'[r].op = "auth"
                   /\ \A q \in Reqs \ {r} : req'[q] = req[q] /\ resp'[q] = resp[q]
       /\ \A r1, r2 \in Reqs :
            (/\ req'[r1].op = "auth" /\ req'[r1].pc = "done"
             /\ req'[r2].op = "auth" /\ req'[r2].pc = "done"
             /\ req'[r1].tok = req'[r2].tok
             /\ req'[r1].at <= req'[r1].tok.exp
             /\ req'[r2].at <= req'[r2].tok.exp)
            => resp'[r1] = resp'[r2]
      ]_vars

\* One token was resolved twice, a second apart, to the same principal, and
\* the store is as it was at the start.
C15_Witness ==
    \E r1, r2 \in Reqs :
        /\ Done(r1, "auth") /\ Done(r2, "auth")
        /\ req[r1].tok = req[r2].tok
        /\ req[r1].at < req[r2].at /\ req[r2].at <= req[r2].tok.exp
        /\ resp[r1].status = HTTP_200_OK /\ resp[r2] = resp[r1]
        /\ users = SeedUsers

----------------------------------------------------------------------------
(* Report claims *)

\* C16: startup stores the mock generator when the LLM is disabled or its
\* import fails and the real one otherwise, and with the mock stored the
\* call "await generate_func(...)" completes with a non-empty text: a report
\* request of a user with at least one record, whose data summary was built,
\* ends in 201 with a non-empty report.
C16_MockReportSucceeds ==
    /\ app.generate_report = "mock_generate_report"
           <=> ~(app.ENABLE_LLM_MODEL /\ app.ollama_importable)
    /\ (/\ out.op = "report"
        /\ app.generate_report = "mock_generate_report"
        /\ record_attrs = "metric_set"
        /\ \E x \in records : x.user_id = out.user_id)
       => out.status = HTTP_201_CREATED /\ out.content # ""

\* C19: the model_used of every stored report names the generator that
\* produced its report_content: the local model name exactly when the content
\* is the text the LLM returned, and "Mock Model" when the content is a mock
\* report.
C19_ModelUsedNamesGenerator ==
    \A x \in reports :
        /\ x.model_used = LOCAL_MODEL_NAME <=> x.report_content = LlmText
        /\ x.report_content \in {MOCK_REPORT, MockText} => x.model_used = MockModel

----------------------------------------------------------------------------
(* Fitness record claims *)

ReadStep == out' # out /\ out'.op = "read" /\ out'.status = HTTP_200_OK

AddStep == records' # records

Mine == {x \in records : x.user_id = out'.user_id}

Returned == {out'.rows[i] : i \in 1..Len(out'.rows)}

\* A submission stores one record, owned by the user who submitted it, and
\* leaves the stored records as they were.
SubmissionOwned ==
    AddStep
    => /\ out'.op = "add" /\ out'.status = HTTP_201_CREATED
       /\ \E x \in records' \ records :
             /\ records' = records \cup {x}
             /\ x.user_id = out'.user_id
             /\ out'.rows = <<x>>
       /\ \E x \in users : x.id = out'.user_id

\* A read returns min(limit, count) distinct records, all of the reader.
ReadOwnOnly ==
    ReadStep
    => /\ Len(out'.rows) = Min(out'.limit, Cardinality(Mine))
       /\ Cardinality(Returned) = Len(out'.rows)
       /\ Returned \subseteq Mine
       /\ records' = records

\* C17 as claimed: every stored record has the user_id of the user who
\* submitted it, and a read for user u with limit n >= 0 returns min(n, count)
\* records of u and of no other user: the most recently created ones, the
\* newest first.
C17_IsolatedNewestFirst ==
    [][/\ SubmissionOwned
       /\ ReadOwnOnly
       /\ ReadStep
          => /\ \A i, j \in 1..Len(out'.rows) :
                   i < j => out'.rows[i].id > out'.rows[j].id
             /\ \A x \in Mine \ Returned : \A y \in Returned : x.id < y.id
      ]_vars

\* C17 as amended: every stored record has the user_id of the user who
\* submitted it, and a read for user u with limit n >= 0 returns min(n, count)
\* records of u and of no other user, in descending order of created_at, none
\* of them with an earlier created_at than a record of u left out; records of
\* equal created_at come in any order, and any of them may be the ones left out.
C17_IsolatedByCreatedAt ==
    [][/\ SubmissionOwned
       /\ ReadOwnOnly
       /\ ReadStep
          => /\ \A i, j \in 1..Len(out'.rows) :
                   i < j => out'.rows[i].created_at >= out'.rows[j].created_at
             /\ \A x \in Mine \ Returned : \A y \in Returned :
                   x.created_at <= y.created_at
      ]_vars

\* A user with two records of different creation times read with limit 1 and
\* got the newer one, while the other user has a record too.
C17_Witness ==
    /\ out.op = "read" /\ out.status = HTTP_200_OK /\ out.limit = 1
    /\ Len(out.rows) = 1
    /\ \E x \in records :
          /\ x.user_id = out.user_id
          /\ x.created_at < out.rows[1].created_at
    /\ \E x \in records : x.user_id # out.user_id

----------------------------------------------------------------------------
(* Activity claims *)

\* C18: a registration stores its principal with is_active = TRUE whatever
\* is_active its request carries; no HTTP operation changes a stored row or
\* removes one; so every principal of every reachable store is active.
C18_PrincipalsStayActive ==
    [][/\ users \subseteq users'
       /\ \A x \in users' \ users :
            /\ x.is_active
            /\ \E r \in Reqs : req[r].op = "register" /\ req'[r].db_user = x
       /\ \A x \in users' : x.is_active
      ]_vars

\* A registration that carried is_active = FALSE succeeded, its principal is
\* stored active, and a login of that principal was answered with a token.
C18_Witness ==
    \E r1, r2 \in Reqs :
        /\ Done(r1, "register") /\ resp[r1].status = HTTP_201_CREATED
        /\ ~req[r1].is_active
        /\ req[r1].db_user \in users /\ req[r1].db_user.is_active
        /\ resp[r1].user.is_active
        /\ Done(r2, "login") /\ resp[r2].status = HTTP_200_OK
        /\ resp[r2].access_token.sub = req[r1].username

====
